---- MODULE Spec2Model ----
(***************************************************************************)
(* Sundrop: SVG sprite builder.  Model of IconSearch (index + scanner),    *)
(* SpriteGenerator (concatenate + render) and bundleSprites (orchestrator).*)
(*                                                                         *)
(* Strings are sequences of one-character strings, so concatenation,       *)
(* prefixing and tokenizing are computed, not assumed.  Filesystem paths   *)
(* are records [dir, stem, ext] with dir a sequence of path segments.      *)
(***************************************************************************)
EXTENDS Integers, Sequences, FiniteSets, TLC

VARIABLES
  cfg,                 \* options handed to bundleSprites / new IconSearch
  FILE_READ_BATCH_SIZE,\* the batch-size constant of the build under test
  pc,                  \* position of the running operation
  index,               \* IconSearch.index : name -> absolute path
  invalidAliases,      \* IconSearch.invalidAliases
  srcIndex,            \* history: the index when the source-location loop ended
  locIdx,              \* buildIndex: position in options.paths
  aliasIdx,            \* buildIndex: position in Object.entries(options.aliases)
  filePaths,           \* search: enumerated project files (with their contents)
  remainingIconNames,  \* search: names not matched yet
  bundledFilePaths,    \* search: icon paths already claimed
  foundMatches,        \* search: Map name -> path, in insertion order
  filesScanned,        \* search: files tokenized so far
  filesRead,           \* search: history, positions of filePaths that were read
  i,                   \* search: batch offset
  batchPos,            \* search: position inside the batch being tokenized
  fileQueue,           \* SpriteGenerator.fileQueue (the entries not yet consumed)
  fileContents,        \* concatenateSvgs: fragments pushed so far
  fragLog,             \* history: (id, path, markup read, fragment pushed)
  spriteSheet,         \* render result
  renderCalls,         \* number of SpriteGenerator.render() invocations
  sink,                \* documents handed to Bun.write, in order
  outcome,             \* how the running (or last) invocation ended
  calls,               \* invocations of the entry operation so far
  projectFiles,        \* filesystem: the project files, once enumerated
  iconText,            \* filesystem: icon path -> markup, for the icons read so far
  watching,            \* CLI watch mode: "off", "on", or "exited"
  timeout,             \* CLI watch mode: the variable "timeout" (0: undefined or null)
  timers,              \* runtime: handles of the setTimeout timers still pending
  scheduled,           \* runtime: setTimeout calls so far (the last handle issued)
  inFlight,            \* bundleSprites calls of timer callbacks not yet settled
  events               \* fs.watch callbacks delivered so far

vars == << cfg, FILE_READ_BATCH_SIZE, pc, index, invalidAliases, srcIndex, locIdx,
           aliasIdx, filePaths, remainingIconNames, bundledFilePaths, foundMatches,
           filesScanned, filesRead, i, batchPos, fileQueue, fileContents, fragLog,
           spriteSheet, renderCalls, sink, outcome, calls, projectFiles, iconText,
           watching, timeout, timers, scheduled, inFlight, events >>

----------------------------------------------------------------------------
(* Bounds                                                                  *)

MaxFiles == 2      \* project files the search glob may enumerate
MaxBatch == 2      \* batch sizes tried for FILE_READ_BATCH_SIZE
MaxPaths == 2      \* configured source locations (index specification)
MaxAliases == 2    \* configured aliases (index specification)
MaxInputs == 2     \* entries of an inputFiles Map handed to a SpriteGenerator
MaxTextLen == 4    \* characters of a project file (tokenizer specification)
MaxCalls == 2      \* invocations of bundleSprites, or of search() on one instance
MaxEvents == 3     \* fs.watch callbacks delivered to a watching CLI

----------------------------------------------------------------------------
(* Generic helpers                                                         *)

EmptyMap == [k \in {} |-> <<>>]

Put(m, k, v) == [x \in (DOMAIN m) \cup {k} |-> IF x = k THEN v ELSE m[x]]

Range(s) == {s[k] : k \in DOMAIN s}

IsPrefixOf(p, s) == Len(p) <= Len(s) /\ SubSeq(s, 1, Len(p)) = p

Min(a, b) == IF a < b THEN a ELSE b

RECURSIVE SeqsUpTo(_, _)
SeqsUpTo(S, n) ==
  IF n = 0 THEN {<<>>}
  ELSE LET shorter == SeqsUpTo(S, n - 1)
       IN  shorter \cup {Append(s, x) : s \in shorter, x \in S}

----------------------------------------------------------------------------
(* Tokenizer                                                               *)

\* The part of [a-zA-Z0-9_:-] that occurs in the model's alphabet.
TokenChars == {"a", "b", "c", "d", "i", "j", "z", "A", "0", "_", ":", "-"}

\* the pattern of the first revision, /[^a-za-z0-9_:-]+/: capitals are separators
tokenizer_NoCapitals(ch) == ch \notin (TokenChars \ {"A"})

\* the pattern /\W+/: hyphen and colon are separators
tokenizer_WordCharsOnly(ch) == ch \notin (TokenChars \ {"-", ":"})

\* /[^a-zA-Z0-9_:-]+/ on one character: TRUE for a separator
tokenizer(ch) == ch \notin TokenChars

\* String.prototype.split(tokenizer): cut at every maximal run of separator
\* characters; a leading or trailing run leaves an empty string.
RECURSIVE SplitFrom(_, _, _, _, _)
SplitFrom(s, k, cur, acc, inSep) ==
  IF k > Len(s) THEN Append(acc, cur)
  ELSE IF tokenizer(s[k])
       THEN IF inSep THEN SplitFrom(s, k + 1, cur, acc, TRUE)
            ELSE SplitFrom(s, k + 1, <<>>, Append(acc, cur), TRUE)
       ELSE SplitFrom(s, k + 1, Append(cur, s[k]), acc, FALSE)

Split(s) == SplitFrom(s, 1, <<>>, <<>>, FALSE)

----------------------------------------------------------------------------
(* The filesystem the program runs against                                 *)

cwd == <<"w">>

File(dir, stem, ext) == [dir |-> dir, stem |-> stem, ext |-> ext]

\* Every file below cwd that matters to indexing, in directory traversal order.
IconFiles ==
  << File(<<"w", "icons">>, <<"a">>, "svg"),
     File(<<"w", "icons">>, <<"c">>, "svg"),
     File(<<"w", "icons">>, <<"n">>, "txt"),
     File(<<"w", "icons", "sub">>, <<"a">>, "svg"),
     File(<<"w", "alt">>, <<"a">>, "svg"),
     File(<<"w", "node_modules", "pkg">>, <<"package">>, "json"),
     File(<<"w", "node_modules", "pkg", "docs">>, <<"z">>, "svg"),
     File(<<"w", "node_modules", "pkg", "svg">>, <<"c">>, "svg"),
     File(<<"w", "node_modules", "@s", "p">>, <<"package">>, "json"),
     File(<<"w", "node_modules", "@s", "p", "svg">>, <<"d">>, "svg"),
     File(<<"w", "node_modules", "raw", "svg">>, <<"a">>, "svg") >>

\* Packages import.meta.resolve finds (those that ship a package.json).
ResolvablePackages ==
  {f.dir : f \in {g \in Range(IconFiles) : g.stem = <<"package">> /\ g.ext = "json"}}

\* exists(path): the path is a directory that holds something.
exists(path) == \E f \in Range(IconFiles) : IsPrefixOf(path, f.dir)

\* glob('**/*.svg', {cwd: searchPath}) followed by resolve(searchPath, filePath)
glob(searchPath) ==
  SelectSeq(IconFiles, LAMBDA f : IsPrefixOf(searchPath, f.dir) /\ f.ext = "svg")

\* path.basename(filePath, '.svg')
basename(filePath) == filePath.stem

\* path.dirname on a directory path
dirname(path) == IF Len(path) = 0 THEN path ELSE SubSeq(path, 1, Len(path) - 1)

\* path.resolve(cwd, relative) for the relative forms used: "." and ".." segments
RECURSIVE resolve(_, _)
resolve(base, parts) ==
  IF parts = <<>> THEN base
  ELSE IF Head(parts) = "." THEN resolve(base, Tail(parts))
  ELSE IF Head(parts) = ".." THEN resolve(dirname(base), Tail(parts))
  ELSE IF Head(parts) = "" THEN resolve(<<>>, Tail(parts))
  ELSE resolve(Append(base, Head(parts)), Tail(parts))

----------------------------------------------------------------------------
(* IconSearch: index building                                              *)

\* A configured location is the list name.split('/'); "/abs" splits to <<"", "abs">>.
pathIsNodeModule(path) == ~(Head(path) \in {".", "..", ""})

idPrefixes == cfg.idPrefix
\* idsForIcon as in the first revision: prefixed ids only
idsForIcon_PrefixedOnly(filePath) ==
  [k \in 1..Len(idPrefixes) |-> idPrefixes[k] \o basename(filePath)]


idsForIcon(filePath) ==
  <<basename(filePath)>> \o [k \in 1..Len(idPrefixes) |-> idPrefixes[k] \o basename(filePath)]

\* resolvePackage: [ok |-> TRUE, dir |-> ...] or [ok |-> FALSE] when it throws.
resolvePackage(name) ==
  LET isNamespaced == Head(name) \in {"@s"}
      pkgName      == IF isNamespaced THEN SubSeq(name, 1, Min(2, Len(name)))
                      ELSE SubSeq(name, 1, 1)
      pkgSubpath   == IF isNamespaced THEN SubSeq(name, 3, Len(name))
                      ELSE SubSeq(name, 2, Len(name))
      pkgRoot      == cwd \o <<"node_modules">> \o pkgName
      direct       == cwd \o <<"node_modules">> \o name
  IN  IF pkgRoot \in ResolvablePackages
      THEN [ok |-> TRUE, dir |-> dirname(pkgRoot \o pkgSubpath)]
      ELSE IF exists(direct)
           THEN [ok |-> TRUE, dir |-> dirname(direct)]
           ELSE [ok |-> FALSE, dir |-> <<>>]

\* registration that keeps the path a name already has: first registration wins
RECURSIVE registerIds_FirstWins(_, _, _)
registerIds_FirstWins(idx, ids, absPath) ==
  IF ids = <<>> THEN idx
  ELSE IF Head(ids) \in DOMAIN idx
       THEN registerIds_FirstWins(idx, Tail(ids), absPath)
       ELSE registerIds_FirstWins(Put(idx, Head(ids), absPath), Tail(ids), absPath)

\* for (const id of ids) this.index.set(id, absPath)
RECURSIVE registerIds(_, _, _)
registerIds(idx, ids, absPath) ==
  IF ids = <<>> THEN idx
  ELSE registerIds(Put(idx, Head(ids), absPath), Tail(ids), absPath)

RECURSIVE registerFiles(_, _)
registerFiles(idx, files) ==
  IF files = <<>> THEN idx
  ELSE registerFiles(registerIds(idx, idsForIcon(Head(files)), Head(files)), Tail(files))

----------------------------------------------------------------------------
(* Configurations                                                          *)

Alias(alias, iconId) == [alias |-> alias, iconId |-> iconId]

\* "undefined" names the options whose merged value is undefined (none here)
Config(mode, paths, aliases, idPrefix) ==
  [mode |-> mode, paths |-> paths, aliases |-> aliases, idPrefix |-> idPrefix,
   inputFiles |-> <<>>, undefined |-> {}]

\* options of a SpriteGenerator constructed directly: inputFiles is a Map, here the
\* sequence of its entries <<id, file>>; idPrefix is a string
RenderConfig(inputFiles, idPrefix) ==
  [mode |-> "render", paths |-> <<>>, aliases |-> <<>>, idPrefix |-> <<idPrefix>>,
   inputFiles |-> inputFiles, undefined |-> {}]

NoPrefix == <<>>             \* the string ''
IconDash == <<"i", "-">>     \* a prefix such as 'icon-'
JDash    == <<"j", "-">>     \* a second prefix such as 'i-'

\* idPrefix after [idPrefix].flat(): a string is a list of one.
StringPrefixes == {<<NoPrefix>>, <<IconDash>>}
ArrayPrefixes  == {<<IconDash, JDash>>}

Locations ==
  { <<".", "icons">>, <<".", "alt">>, <<"pkg", "svg">>, <<"@s", "p", "svg">>,
    <<"raw", "svg">>, <<"ghost">> }

AliasNames   == {<<"b">>, <<"a">>, <<"x">>}
AliasTargets == {<<"a">>, <<"b">>, <<"c">>}

\* Object.entries(aliases): keys are unique.
AliasLists ==
  {s \in SeqsUpTo({Alias(n, t) : n \in AliasNames, t \in AliasTargets}, MaxAliases) :
     \A p, q \in DOMAIN s : p # q => s[p].alias # s[q].alias}

\* Configurations of the index specification: buildIndex() called on a new instance.
IndexConfigs ==
  {Config("index", ps, al, pf) :
     ps \in SeqsUpTo(Locations, MaxPaths), al \in AliasLists,
     pf \in StringPrefixes \cup ArrayPrefixes}

ScanPaths ==
  { <<>>, << <<".", "alt">> >>, << <<".", "icons">> >>,
    << <<"pkg", "svg">> >>, << <<".", "alt">>, <<"ghost">> >> }

ScanAliases == { <<>>, << Alias(<<"b">>, <<"a">>) >> }

\* Configurations of the pipeline specification: bundleSprites(config), whose idPrefix
\* is a string, or search() on a new IconSearch, whose idPrefix may be an array.
ScanConfigs ==
  {Config("bundle", ps, al, pf) : ps \in ScanPaths, al \in ScanAliases, pf \in StringPrefixes}
  \cup
  {Config("search", ps, al, pf) : ps \in ScanPaths, al \in ScanAliases,
                                  pf \in StringPrefixes \cup ArrayPrefixes}

\* the path '' (a Map value that is falsy)
EmptyPath == File(<<>>, <<>>, "")

\* Entries a caller may put into inputFiles: icon files of the tree, under their base
\* name or under the empty id, and an entry whose path is empty.
InputEntries ==
  { <<(<<"a">>), File(<<"w", "icons">>, <<"a">>, "svg")>>,
    <<(<<"c">>), File(<<"w", "icons">>, <<"c">>, "svg")>>,
    <<(<<>>),    File(<<"w", "alt">>, <<"a">>, "svg")>>,
    <<(<<"x">>), EmptyPath>> }

\* Map keys are unique.
InputFileLists ==
  {s \in SeqsUpTo(InputEntries, MaxInputs) :
     \A p, q \in DOMAIN s : p # q => s[p][1] # s[q][1]}

\* Configurations of a SpriteGenerator used without bundleSprites.
RenderConfigs ==
  {RenderConfig(fs, pf) : fs \in InputFileLists, pf \in {NoPrefix, IconDash}}

\* The project tree is the same at every enumeration; the model fixes it at the first.
NotEnumerated == [known |-> FALSE, files |-> <<>>]
Enumerated(files) == [known |-> TRUE, files |-> files]

\* the CLI has not entered watch mode: "let timeout" is undefined
NotWatching ==
  /\ watching = "off"
  /\ timeout = 0
  /\ timers = {}
  /\ scheduled = 0
  /\ inFlight = 0
  /\ events = 0

\* State right after the constructors ran (index and invalidAliases empty).
NewInstance ==
  /\ NotWatching
  /\ pc = "idle"
  /\ index = EmptyMap
  /\ invalidAliases = {}
  /\ srcIndex = EmptyMap
  /\ locIdx = 1
  /\ aliasIdx = 1
  /\ filePaths = <<>>
  /\ remainingIconNames = {}
  /\ bundledFilePaths = {}
  /\ foundMatches = <<>>
  /\ filesScanned = 0
  /\ filesRead = {}
  /\ i = 0
  /\ batchPos = 0
  /\ fileQueue = <<>>
  /\ fileContents = <<>>
  /\ fragLog = <<>>
  /\ spriteSheet = <<>>
  /\ renderCalls = 0
  /\ sink = <<>>
  /\ outcome = "running"
  /\ calls = 0
  /\ iconText = EmptyMap

Constructed == NewInstance /\ projectFiles = NotEnumerated

Init ==
  /\ \/ cfg \in ScanConfigs /\ FILE_READ_BATCH_SIZE \in 1..MaxBatch
     \/ cfg \in RenderConfigs /\ FILE_READ_BATCH_SIZE = 1
  /\ Constructed

InitIndex ==
  /\ cfg \in IndexConfigs
  /\ FILE_READ_BATCH_SIZE = 1
  /\ Constructed

----------------------------------------------------------------------------
(* IconSearch.buildIndex                                                   *)

scanVars   == << filePaths, remainingIconNames, bundledFilePaths, foundMatches,
                 filesScanned, filesRead, i, batchPos >>
spriteVars == << fileQueue, fileContents, fragLog, spriteSheet, renderCalls, sink >>
constVars  == << cfg, FILE_READ_BATCH_SIZE >>
watchVars  == << watching, timeout, timers, scheduled, inFlight, events >>
envVars    == << projectFiles, iconText >>

\* buildIndex() invoked directly on a fresh instance
CallBuildIndex ==
  /\ pc = "idle"
  /\ cfg.mode = "index"
  /\ pc' = "buildIndex"
  /\ calls' = calls + 1
  /\ UNCHANGED << constVars, watchVars, envVars, index, invalidAliases, srcIndex, locIdx, aliasIdx,
                  scanVars, spriteVars, outcome >>

\* one iteration of the loop over options.paths, for a filesystem path
IndexLocalPath ==
  /\ pc = "buildIndex"
  /\ locIdx <= Len(cfg.paths)
  /\ ~pathIsNodeModule(cfg.paths[locIdx])
  /\ index' = registerFiles(index, glob(resolve(cwd, cfg.paths[locIdx])))
  /\ locIdx' = locIdx + 1
  /\ UNCHANGED << constVars, watchVars, envVars, calls, pc, invalidAliases, srcIndex, aliasIdx,
                  scanVars, spriteVars, outcome >>

\* one iteration of the loop over options.paths, for a package that resolves
IndexPackage ==
  /\ pc = "buildIndex"
  /\ locIdx <= Len(cfg.paths)
  /\ pathIsNodeModule(cfg.paths[locIdx])
  /\ resolvePackage(cfg.paths[locIdx]).ok
  /\ index' = registerFiles(index, glob(resolvePackage(cfg.paths[locIdx]).dir))
  /\ locIdx' = locIdx + 1
  /\ UNCHANGED << constVars, watchVars, envVars, calls, pc, invalidAliases, srcIndex, aliasIdx,
                  scanVars, spriteVars, outcome >>

\* resolvePackage throws: the error leaves buildIndex, search and bundleSprites
IndexPackageThrows ==
  /\ pc = "buildIndex"
  /\ locIdx <= Len(cfg.paths)
  /\ pathIsNodeModule(cfg.paths[locIdx])
  /\ ~resolvePackage(cfg.paths[locIdx]).ok
  /\ pc' = "done"
  /\ outcome' = "error:resolve"
  /\ UNCHANGED << constVars, watchVars, envVars, calls, index, invalidAliases, srcIndex, locIdx, aliasIdx,
                  scanVars, spriteVars >>

\* the loop over options.paths ends; the alias loop begins
IndexPathsDone ==
  /\ pc = "buildIndex"
  /\ "paths" \notin cfg.undefined
  /\ locIdx > Len(cfg.paths)
  /\ srcIndex' = index
  /\ aliasIdx' = 1
  /\ pc' = "aliases"
  /\ UNCHANGED << constVars, watchVars, envVars, calls, index, invalidAliases, locIdx, scanVars, spriteVars, outcome >>

\* "for (const path of this.options.paths)" when options.paths is undefined: the loop
\* statement throws a TypeError before anything is indexed
BuildIndexNotIterable ==
  /\ pc = "buildIndex"
  /\ "paths" \in cfg.undefined
  /\ pc' = "done"
  /\ outcome' = "error:type"
  /\ UNCHANGED << constVars, watchVars, envVars, calls, index, invalidAliases, srcIndex,
                  locIdx, aliasIdx, scanVars, spriteVars >>

\* the alias loop without "this.invalidAliases.add(alias)"
resolveAlias_NoRecord(idx, invalid, entry) ==
  IF entry.iconId \in DOMAIN idx
  THEN [index |-> Put(idx, entry.alias, idx[entry.iconId]), invalid |-> invalid]
  ELSE [index |-> idx, invalid |-> invalid]

\* the alias loop without "this.index.set(alias, this.index.get(iconId))"
resolveAlias_NoRegister(idx, invalid, entry) ==
  IF entry.iconId \in DOMAIN idx
  THEN [index |-> idx, invalid |-> invalid]
  ELSE [index |-> idx, invalid |-> invalid \cup {entry.alias}]

\* what one iteration of the alias loop does to (index, invalidAliases)
resolveAlias(idx, invalid, entry) ==
  IF entry.iconId \in DOMAIN idx
  THEN [index |-> Put(idx, entry.alias, idx[entry.iconId]), invalid |-> invalid]
  ELSE [index |-> idx, invalid |-> invalid \cup {entry.alias}]

ResolveAlias ==
  /\ pc = "aliases"
  /\ aliasIdx <= Len(cfg.aliases)
  /\ LET r == resolveAlias(index, invalidAliases, cfg.aliases[aliasIdx])
     IN  /\ index' = r.index
         /\ invalidAliases' = r.invalid
  /\ aliasIdx' = aliasIdx + 1
  /\ UNCHANGED << constVars, watchVars, envVars, calls, pc, srcIndex, locIdx, scanVars, spriteVars, outcome >>

\* buildIndex returns, to its caller or into search()
BuildIndexReturns ==
  /\ pc = "aliases"
  /\ aliasIdx > Len(cfg.aliases)
  /\ IF cfg.mode = "index"
     THEN pc' = "done" /\ outcome' = "indexed"
     ELSE pc' = "glob" /\ outcome' = outcome
  /\ UNCHANGED << constVars, watchVars, envVars, calls, index, invalidAliases, srcIndex, locIdx, aliasIdx,
                  scanVars, spriteVars >>

NextIndex ==
  \/ CallBuildIndex
  \/ IndexLocalPath
  \/ IndexPackage
  \/ IndexPackageThrows
  \/ IndexPathsDone
  \/ ResolveAlias
  \/ BuildIndexReturns

SpecIndex == InitIndex /\ [][NextIndex]_vars


----------------------------------------------------------------------------
(* IconSearch.search                                                       *)

Text(chars)  == [ok |-> TRUE, text |-> chars]
Unreadable   == [ok |-> FALSE, text |-> <<>>]

\* Project files the search glob may return: their text, or a path whose read fails.
ProjectFilePool ==
  { Text(<<"a">>),
    Text(<<"i", "-", "a", " ", "a">>),
    Text(<<"a", " ", "i", "-", "a">>),
    Text(<<"i", "-", "c">>),
    Text(<<"c", " ", "b">>),
    Text(<<"#", "a", " ", "#", "i", "-", "c">>),
    Text(<<" ", "z">>),
    Unreadable }

\* bundleSprites(config) is invoked: "new IconSearch(iconSearchConfig)"
BundleSprites ==
  /\ pc = "idle"
  /\ cfg.mode = "bundle"
  /\ calls' = calls + 1
  /\ pc' = "search"
  /\ UNCHANGED << constVars, watchVars, envVars, index, invalidAliases, srcIndex, locIdx, aliasIdx,
                  scanVars, spriteVars, outcome >>

\* search() invoked directly on a new IconSearch
CallSearch ==
  /\ pc = "idle"
  /\ cfg.mode = "search"
  /\ calls' = calls + 1
  /\ pc' = "search"
  /\ UNCHANGED << constVars, watchVars, envVars, index, invalidAliases, srcIndex, locIdx, aliasIdx,
                  scanVars, spriteVars, outcome >>

\* what an invocation leaves behind in the locals of search(): nothing
NoLocals ==
  /\ filePaths' = <<>>
  /\ remainingIconNames' = {}
  /\ bundledFilePaths' = {}
  /\ foundMatches' = <<>>
  /\ filesScanned' = 0
  /\ filesRead' = {}
  /\ i' = 0
  /\ batchPos' = 0

\* bundleSprites(config) is invoked again after it ended: "new IconSearch" builds
\* another instance, with an empty index
BundleSpritesAgain ==
  /\ pc = "done"
  /\ cfg.mode = "bundle"
  /\ calls < MaxCalls
  /\ calls' = calls + 1
  /\ index' = EmptyMap
  /\ invalidAliases' = {}
  /\ outcome' = "running"
  /\ NoLocals
  /\ pc' = "search"
  /\ UNCHANGED << constVars, watchVars, envVars, srcIndex, locIdx, aliasIdx, spriteVars >>

\* search() invoked again on the same IconSearch, after it returned or threw
CallSearchAgain ==
  /\ pc = "done"
  /\ cfg.mode = "search"
  /\ calls < MaxCalls
  /\ calls' = calls + 1
  /\ outcome' = "running"
  /\ NoLocals
  /\ pc' = "search"
  /\ UNCHANGED << constVars, watchVars, envVars, index, invalidAliases, srcIndex, locIdx, aliasIdx,
                  spriteVars >>

\* search() that rebuilds the index on every call
SearchStart_AlwaysBuilds ==
  /\ pc = "search"
  /\ pc' = "buildIndex" /\ locIdx' = 1
  /\ UNCHANGED << constVars, watchVars, envVars, calls, index, invalidAliases, srcIndex, aliasIdx,
                  scanVars, spriteVars, outcome >>

\* if (this.index.size === 0) await this.buildIndex()
SearchStart ==
  /\ pc = "search"
  /\ IF index = EmptyMap
     THEN pc' = "buildIndex" /\ locIdx' = 1
     ELSE pc' = "glob" /\ locIdx' = locIdx
  /\ UNCHANGED << constVars, watchVars, envVars, calls, index, invalidAliases, srcIndex, aliasIdx,
                  scanVars, spriteVars, outcome >>

\* the glob over searchPattern is drained into filePaths; the scan state is created
EnumerateFiles ==
  /\ pc = "glob"
  /\ IF projectFiles.known
     THEN filePaths' = projectFiles.files /\ projectFiles' = projectFiles
     ELSE \E files \in SeqsUpTo(ProjectFilePool, MaxFiles) :
            filePaths' = files /\ projectFiles' = Enumerated(files)
  /\ bundledFilePaths' = {}
  /\ foundMatches' = <<>>
  /\ remainingIconNames' = DOMAIN index
  /\ filesScanned' = 0
  /\ i' = 0
  /\ pc' = "loop"
  /\ UNCHANGED << constVars, watchVars, iconText, calls, index, invalidAliases, srcIndex, locIdx,
                  aliasIdx, filesRead, batchPos, spriteVars, outcome >>

\* filePaths.slice(i + 1, i + FILE_READ_BATCH_SIZE): the first file of a batch is left out
batchOf_SkipsFirst(paths, from, size) ==
  {k \in 1..Len(paths) : from + 1 < k /\ k <= from + size}

\* filePaths.slice(i, i + FILE_READ_BATCH_SIZE), as positions of filePaths
batchOf(paths, from, size) == {k \in 1..Len(paths) : from < k /\ k <= from + size}
\* early exit as soon as anything at all has been matched
allIconsFound_AnyFound(remaining) == remaining # DOMAIN index

\* no early exit
allIconsFound_Never(remaining) == FALSE

\* the early-exit test at the head of the batch loop
allIconsFound(remaining) == remaining = {}

Scan(remaining, bundled, found) ==
  [remaining |-> remaining, bundled |-> bundled, found |-> found]
\* scanToken without the bundledFilePaths test
scanToken_NoDedup(idx, st, token) ==
  IF Len(token) = 0 \/ token \notin st.remaining
  THEN st
  ELSE Scan(st.remaining \ {token}, st.bundled \cup {idx[token]},
            Append(st.found, <<token, idx[token]>>))

\* scanToken where a later name for a claimed path replaces the earlier key
scanToken_LastWins(idx, st, token) ==
  IF Len(token) = 0 \/ token \notin st.remaining
  THEN st
  ELSE Scan(st.remaining \ {token}, st.bundled \cup {idx[token]},
            Append(SelectSeq(st.found, LAMBDA e : e[2] # idx[token]),
                   <<token, idx[token]>>))

\* scanToken without the "token.length === 0" test
scanToken_NoEmptyFilter(idx, st, token) ==
  IF token \notin st.remaining
  THEN st
  ELSE LET iconPath == idx[token]
       IN  IF iconPath \notin st.bundled
           THEN Scan(st.remaining \ {token}, st.bundled \cup {iconPath},
                     Append(st.found, <<token, iconPath>>))
           ELSE Scan(st.remaining \ {token}, st.bundled, st.found)

\* body of the token loop for one token
scanToken(idx, st, token) ==
  IF Len(token) = 0 \/ token \notin st.remaining
  THEN st
  ELSE LET iconPath == idx[token]
       IN  IF iconPath \notin st.bundled
           THEN Scan(st.remaining \ {token}, st.bundled \cup {iconPath},
                     Append(st.found, <<token, iconPath>>))
           ELSE Scan(st.remaining \ {token}, st.bundled, st.found)

RECURSIVE scanTokens(_, _, _)
scanTokens(idx, st, tokens) ==
  IF tokens = <<>> THEN st
  ELSE scanTokens(idx, scanToken(idx, st, Head(tokens)), Tail(tokens))

LoopEnds ==
  /\ pc = "loop"
  /\ i >= Len(filePaths)
  /\ pc' = "searched"
  /\ UNCHANGED << constVars, watchVars, envVars, calls, index, invalidAliases, srcIndex, locIdx, aliasIdx,
                  scanVars, spriteVars, outcome >>

EarlyExit ==
  /\ pc = "loop"
  /\ i < Len(filePaths)
  /\ allIconsFound(remainingIconNames)
  /\ pc' = "searched"
  /\ UNCHANGED << constVars, watchVars, envVars, calls, index, invalidAliases, srcIndex, locIdx, aliasIdx,
                  scanVars, spriteVars, outcome >>

\* Promise.all over the batch: every file of the batch is read
ReadBatch ==
  /\ pc = "loop"
  /\ i < Len(filePaths)
  /\ ~allIconsFound(remainingIconNames)
  /\ \A k \in batchOf(filePaths, i, FILE_READ_BATCH_SIZE) : filePaths[k].ok
  /\ filesRead' = filesRead \cup batchOf(filePaths, i, FILE_READ_BATCH_SIZE)
  /\ batchPos' = 1
  /\ pc' = "tokenize"
  /\ UNCHANGED << constVars, watchVars, envVars, calls, index, invalidAliases, srcIndex, locIdx, aliasIdx,
                  filePaths, remainingIconNames, bundledFilePaths, foundMatches,
                  filesScanned, i, spriteVars, outcome >>

\* one read of the batch rejects: search() throws
ReadBatchThrows ==
  /\ pc = "loop"
  /\ i < Len(filePaths)
  /\ ~allIconsFound(remainingIconNames)
  /\ \E k \in batchOf(filePaths, i, FILE_READ_BATCH_SIZE) : ~filePaths[k].ok
  /\ filesRead' = filesRead \cup batchOf(filePaths, i, FILE_READ_BATCH_SIZE)
  /\ pc' = "done"
  /\ outcome' = "error:scan"
  /\ UNCHANGED << constVars, watchVars, envVars, calls, index, invalidAliases, srcIndex, locIdx, aliasIdx,
                  filePaths, remainingIconNames, bundledFilePaths, foundMatches,
                  filesScanned, i, batchPos, spriteVars >>

\* the file loop where a file's text is appended to the previous file's text before
\* it is split
TokenizeFile_MergesFiles ==
  /\ pc = "tokenize"
  /\ i + batchPos \in batchOf(filePaths, i, FILE_READ_BATCH_SIZE)
  /\ filesScanned' = filesScanned + 1
  /\ LET before == IF i + batchPos > 1 THEN filePaths[i + batchPos - 1].text ELSE <<>>
         st == scanTokens(index,
                          Scan(remainingIconNames, bundledFilePaths, foundMatches),
                          Split(before \o filePaths[i + batchPos].text))
     IN  /\ remainingIconNames' = st.remaining
         /\ bundledFilePaths' = st.bundled
         /\ foundMatches' = st.found
  /\ batchPos' = batchPos + 1
  /\ UNCHANGED << constVars, watchVars, envVars, calls, pc, index, invalidAliases, srcIndex, locIdx, aliasIdx,
                  filePaths, filesRead, i, spriteVars, outcome >>

\* one iteration of "for (const content of fileContents)"
TokenizeFile ==
  /\ pc = "tokenize"
  /\ i + batchPos \in batchOf(filePaths, i, FILE_READ_BATCH_SIZE)
  /\ filesScanned' = filesScanned + 1
  /\ LET st == scanTokens(index,
                          Scan(remainingIconNames, bundledFilePaths, foundMatches),
                          Split(filePaths[i + batchPos].text))
     IN  /\ remainingIconNames' = st.remaining
         /\ bundledFilePaths' = st.bundled
         /\ foundMatches' = st.found
  /\ batchPos' = batchPos + 1
  /\ UNCHANGED << constVars, watchVars, envVars, calls, pc, index, invalidAliases, srcIndex, locIdx, aliasIdx,
                  filePaths, filesRead, i, spriteVars, outcome >>

\* the batch is consumed: i += FILE_READ_BATCH_SIZE
BatchDone ==
  /\ pc = "tokenize"
  /\ i + batchPos \notin batchOf(filePaths, i, FILE_READ_BATCH_SIZE)
  /\ i' = i + FILE_READ_BATCH_SIZE
  /\ pc' = "loop"
  /\ UNCHANGED << constVars, watchVars, envVars, calls, index, invalidAliases, srcIndex, locIdx, aliasIdx,
                  filePaths, remainingIconNames, bundledFilePaths, foundMatches,
                  filesScanned, filesRead, batchPos, spriteVars, outcome >>

\* search() returns foundMatches to a direct caller
SearchReturns ==
  /\ pc = "searched"
  /\ cfg.mode = "search"
  /\ pc' = "done"
  /\ outcome' = "searched"
  /\ UNCHANGED << constVars, watchVars, envVars, calls, index, invalidAliases, srcIndex, locIdx, aliasIdx,
                  scanVars, spriteVars >>

----------------------------------------------------------------------------
(* search() over one project file of arbitrary text                        *)

\* a name character, a capital, a punctuation character of the class, two separators
TextAlphabet == {"a", "A", "-", " ", "#"}

TextConfig == Config("search", << <<".", "alt">> >>, <<>>, <<NoPrefix>>)

\* the same project with aliases: { '': 'a' }
TextConfigEmptyAlias ==
  Config("search", << <<".", "alt">> >>, << Alias(<<>>, <<"a">>) >>, <<NoPrefix>>)

InitText ==
  /\ cfg \in {TextConfig, TextConfigEmptyAlias}
  /\ FILE_READ_BATCH_SIZE = 1
  /\ NewInstance
  /\ projectFiles \in {Enumerated(<<Text(t)>>) : t \in SeqsUpTo(TextAlphabet, MaxTextLen)}

\* the steps search() can take over a one-file project with a one-name index
NextText ==
  \/ CallSearch
  \/ CallSearchAgain
  \/ SearchStart
  \/ IndexLocalPath
  \/ IndexPathsDone
  \/ ResolveAlias
  \/ BuildIndexReturns
  \/ EnumerateFiles
  \/ ReadBatch
  \/ TokenizeFile
  \/ BatchDone
  \/ LoopEnds
  \/ SearchReturns

SpecText == InitText /\ [][NextText]_vars

----------------------------------------------------------------------------
(* search() over two project files of arbitrary short text                 *)

MaxPartLen == 2

\* the characters of the name "i-a", and a separator
PartAlphabet == {"i", "-", "a", " "}

\* one icon "a", indexed as "a" alone or as "a" and "i-a"
PartConfigs ==
  {Config("search", << <<".", "alt">> >>, <<>>, pf) : pf \in StringPrefixes}

InitParts ==
  /\ cfg \in PartConfigs
  /\ FILE_READ_BATCH_SIZE \in 1..MaxBatch
  /\ NewInstance
  /\ projectFiles \in {Enumerated(<<Text(t), Text(u)>>) :
                          t \in SeqsUpTo(PartAlphabet, MaxPartLen),
                          u \in SeqsUpTo(PartAlphabet, MaxPartLen)}

\* the steps search() can take over a two-file project
NextParts ==
  \/ CallSearch
  \/ SearchStart
  \/ IndexLocalPath
  \/ IndexPathsDone
  \/ BuildIndexReturns
  \/ EnumerateFiles
  \/ EarlyExit
  \/ ReadBatch
  \/ TokenizeFile
  \/ BatchDone
  \/ LoopEnds
  \/ SearchReturns

SpecParts == InitParts /\ [][NextParts]_vars

----------------------------------------------------------------------------
(* SpriteGenerator                                                         *)

Attr(k, v) == [k |-> k, v |-> v]
Element(name, attrs, kids) == [name |-> name, attrs |-> attrs, kids |-> kids]

\* Text of an icon file: what precedes the root tag (pre), the number of whitespace
\* characters right after "<svg" (gap; 0 for "<svg>"), the root's attributes and
\* its child elements.
Markup(pre, gap, attrs, kids) == [pre |-> pre, gap |-> gap, attrs |-> attrs, kids |-> kids]

ViewBox == Attr("viewBox", <<"0", "0", "24", "24">>)

Chars8(a, b, c, d, e, f, g, h) == <<a, b, c, d, e, f, g, h>>

FillRed   == Chars8("f", "i", "l", "l", ":", "r", "e", "d")   \* style="fill:red"
StrokeRed == Chars8("s", "t", "r", "o", "k", "e", ":", "r")   \* style="stroke:r"

\* Icon files as they may be found on disk when render reads them.
Markups ==
  { Markup(<<>>, 1, <<ViewBox>>,
           << Element("path", <<Attr("d", <<"M">>)>>, <<>>),
              Element("g", <<Attr("opacity", <<"1">>)>>, <<>>) >>),
    Markup(<<>>, 0, <<>>,
           << Element("circle", <<Attr("r", <<"10">>)>>, <<>>),
              Element("ellipse", <<Attr("fill", <<>>), Attr("rx", <<"5">>)>>, <<>>) >>),
    Markup(<<"<?xml?>">>, 1, <<ViewBox>>,
           << Element("rect", <<Attr("fill", <<"#", "f", "0", "0">>)>>, <<>>),
              Element("svg", <<Attr("width", <<"8">>)>>, <<>>) >>),
    Markup(<<>>, 2, <<Attr("width", <<"24">>), Attr("height", <<"24">>)>>,
           << Element("path", <<Attr("d", <<"M">>), Attr("style", FillRed)>>, <<>>),
              Element("path", <<Attr("d", <<"L">>), Attr("style", StrokeRed)>>, <<>>) >>) }

\* What a read of a path that holds no (readable) file leaves in iconText.
NoFile == Markup(<<"ENOENT">>, 0, <<>>, <<>>)

\* const outputId = id ? `${idPrefix}${id}` : id
outputIdFor(idPrefix, id) == IF id # <<>> THEN idPrefix \o id ELSE id

\* svg.replace(/^<svg\s+/, `<svg id="${outputId}" `): the pattern matches only text
\* that begins with "<svg" followed by at least one whitespace character.
injectId(svg, outputId) ==
  IF svg.pre = <<>> /\ svg.gap >= 1
  THEN [svg EXCEPT !.gap = 1, !.attrs = <<Attr("id", outputId)>> \o @]
  ELSE svg

\* `<svg width="0" height="0" style="position:absolute">${symbolBuffer}</svg>`,
\* as the tree the optimizer parses (prologs are dropped by the generic rules)
spriteTemplate(fragments) ==
  Element("svg",
          <<Attr("width", <<"0">>), Attr("height", <<"0">>),
            Attr("style", <<"position:", "absolute">>)>>,
          [k \in DOMAIN fragments |->
             Element("svg", fragments[k].attrs, fragments[k].kids)])

HasAttr(node, k) == \E a \in Range(node.attrs) : a.k = k

AttrOf(node, k) == (CHOOSE a \in Range(node.attrs) : a.k = k).v

\* node.attributes[k] as a condition: undefined and '' are falsy
Truthy(node, k) == HasAttr(node, k) /\ AttrOf(node, k) # <<>>

\* String.prototype.includes
includes(str, sub) ==
  \E k \in 1..(Len(str) - Len(sub) + 1) : SubSeq(str, k, k + Len(sub) - 1) = sub

\* 'removeEmptyAttrs', the generic rule that drops attributes whose value is ''
removeEmptyAttrs(node, parentIsRoot) ==
  [node EXCEPT !.attrs = SelectSeq(@, LAMBDA a : a.v # <<>>)]
\* convertSvgToSymbol without the test of the parent
convertSvgToSymbol_RenamesRoot(node, parentIsRoot) ==
  IF node.name = "svg" THEN [node EXCEPT !.name = "symbol"] ELSE node

convertSvgToSymbol(node, parentIsRoot) ==
  IF parentIsRoot THEN node
  ELSE IF node.name = "svg" THEN [node EXCEPT !.name = "symbol"]
  ELSE node
\* addCurrentColorFill as it was before it looked at the style attribute
addCurrentColorFill_IgnoresStyle(node, parentIsRoot) ==
  IF \/ node.name \notin {"path", "ellipse", "rect", "circle"}
     \/ Truthy(node, "fill")
  THEN node
  ELSE [node EXCEPT !.attrs = Append(@, Attr("fill", <<"currentColor">>))]

addCurrentColorFill(node, parentIsRoot) ==
  IF \/ node.name \notin {"path", "ellipse", "rect", "circle"}
     \/ Truthy(node, "fill")
     \/ (HasAttr(node, "style") /\ includes(AttrOf(node, "style"), <<"f", "i", "l", "l", ":">>))
  THEN node
  ELSE IF HasAttr(node, "fill")
       THEN [node EXCEPT !.attrs =
               [k \in DOMAIN @ |-> IF @[k].k = "fill" THEN Attr("fill", <<"currentColor">>)
                                   ELSE @[k]]]
       ELSE [node EXCEPT !.attrs = Append(@, Attr("fill", <<"currentColor">>))]

\* { name: 'removeAttrs', params: { attrs: 'symbol:(width|height)' } }
removeAttrs(node, parentIsRoot) ==
  IF node.name = "symbol"
  THEN [node EXCEPT !.attrs = SelectSeq(@, LAMBDA a : a.k \notin {"width", "height"})]
  ELSE node

\* one plugin pass over the document: the wrapper, the icon roots, their children
Visit(plugin(_, _), doc) ==
  LET top == plugin(doc, TRUE)
  IN  [top EXCEPT !.kids =
        [k \in DOMAIN top.kids |->
           LET mid == plugin(top.kids[k], FALSE)
           IN  [mid EXCEPT !.kids =
                 [j \in DOMAIN mid.kids |-> plugin(mid.kids[j], FALSE)]]]]

\* the document as the custom rules receive it, after the generic rules
generic(doc) == Visit(removeEmptyAttrs, doc)
\* the list with the strip rule ahead of the rename
optimize_StripBeforeRename(doc) ==
  Visit(addCurrentColorFill, Visit(convertSvgToSymbol, Visit(removeAttrs, generic(doc))))

\* optimize(..., {plugins: DEFAULT_SVGO_PLUGINS}): the rules in list order
optimize(doc) ==
  Visit(removeAttrs, Visit(addCurrentColorFill, Visit(convertSvgToSymbol, generic(doc))))

----------------------------------------------------------------------------
(* bundleSprites                                                           *)

\* matches.size === 0: log and return
BundleNoMatches ==
  /\ pc = "searched"
  /\ cfg.mode = "bundle"
  /\ Len(foundMatches) = 0
  /\ pc' = "done"
  /\ outcome' = "noMatches"
  /\ UNCHANGED << constVars, watchVars, envVars, calls, index, invalidAliases, srcIndex, locIdx, aliasIdx,
                  scanVars, spriteVars >>
\* bundleSprites without the "matches.size === 0" return
NewSpriteGenerator_NoGuard ==
  /\ pc = "searched"
  /\ cfg.mode = "bundle"
  /\ fileQueue' = foundMatches
  /\ pc' = "render"
  /\ UNCHANGED << constVars, watchVars, envVars, calls, index, invalidAliases, srcIndex, locIdx, aliasIdx,
                  scanVars, fileContents, fragLog, spriteSheet, renderCalls, sink,
                  outcome >>

\* new SpriteGenerator({inputFiles: matches, idPrefix}): fileQueue = entries()
NewSpriteGenerator ==
  /\ pc = "searched"
  /\ cfg.mode = "bundle"
  /\ Len(foundMatches) # 0
  /\ fileQueue' = foundMatches
  /\ pc' = "render"
  /\ UNCHANGED << constVars, watchVars, envVars, calls, index, invalidAliases, srcIndex, locIdx, aliasIdx,
                  scanVars, fileContents, fragLog, spriteSheet, renderCalls, sink,
                  outcome >>

\* concatenateSvgs that appends to the fragments of the previous render
Render_KeepsFragments ==
  /\ pc = "render"
  /\ renderCalls' = renderCalls + 1
  /\ fragLog' = <<>>
  /\ pc' = "concat"
  /\ UNCHANGED << constVars, watchVars, envVars, calls, index, invalidAliases, srcIndex, locIdx, aliasIdx,
                  scanVars, fileQueue, fileContents, spriteSheet, sink, outcome >>

\* spriteGen.render() is entered and calls concatenateSvgs()
Render ==
  /\ pc = "render"
  /\ renderCalls' = renderCalls + 1
  /\ fileContents' = <<>>
  /\ fragLog' = <<>>
  /\ pc' = "concat"
  /\ UNCHANGED << constVars, watchVars, envVars, calls, index, invalidAliases, srcIndex, locIdx, aliasIdx,
                  scanVars, fileQueue, spriteSheet, sink, outcome >>

\* The markups an icon path may hold: what an earlier read saw, else any.
readable(file) ==
  IF file = EmptyPath THEN {}
  ELSE IF file \in DOMAIN iconText THEN {iconText[file]} \cap Markups ELSE Markups

\* whether Bun.file(file).text() may reject: the path held no file before, or is new
unreadable(file) ==
  file # EmptyPath /\ (file \in DOMAIN iconText => iconText[file] = NoFile)

\* new SpriteGenerator(options) by a direct caller, followed by render()
CallRender ==
  /\ pc = "idle"
  /\ cfg.mode = "render"
  /\ calls' = calls + 1
  /\ fileQueue' = cfg.inputFiles
  /\ pc' = "render"
  /\ UNCHANGED << constVars, watchVars, envVars, index, invalidAliases, srcIndex, locIdx, aliasIdx,
                  scanVars, fileContents, fragLog, spriteSheet, renderCalls, sink,
                  outcome >>

\* one iteration of the queue loop for an entry whose path is falsy: if (!file) continue
ConcatenateSkip ==
  /\ pc = "concat"
  /\ fileQueue # <<>>
  /\ Head(fileQueue)[2] = EmptyPath
  /\ fileQueue' = Tail(fileQueue)
  /\ UNCHANGED << constVars, watchVars, envVars, calls, pc, index, invalidAliases, srcIndex, locIdx,
                  aliasIdx, scanVars, fileContents, fragLog, spriteSheet, renderCalls,
                  sink, outcome >>

\* the queue loop with fileContents.unshift(...) in place of push
ConcatenateNext_Unshift ==
  /\ pc = "concat"
  /\ fileQueue # <<>>
  /\ LET id   == Head(fileQueue)[1]
         file == Head(fileQueue)[2]
     IN  \E svg \in readable(file) :
           LET fragment == injectId(svg, outputIdFor(cfg.idPrefix[1], id))
           IN  /\ fileContents' = <<fragment>> \o fileContents
               /\ fragLog' = Append(fragLog, [id |-> id, file |-> file, svg |-> svg,
                                              fragment |-> fragment])
               /\ iconText' = Put(iconText, file, svg)
  /\ fileQueue' = Tail(fileQueue)
  /\ UNCHANGED << constVars, watchVars, projectFiles, calls, pc, index, invalidAliases, srcIndex,
                  locIdx, aliasIdx, scanVars, spriteSheet, renderCalls, sink, outcome >>

\* one iteration of "for (const [id, file] of this.fileQueue)" whose read succeeds
ConcatenateNext ==
  /\ pc = "concat"
  /\ fileQueue # <<>>
  /\ LET id   == Head(fileQueue)[1]
         file == Head(fileQueue)[2]
     IN  \E svg \in readable(file) :
           LET fragment == injectId(svg, outputIdFor(cfg.idPrefix[1], id))
           IN  /\ fileContents' = Append(fileContents, fragment)
               /\ fragLog' = Append(fragLog, [id |-> id, file |-> file, svg |-> svg,
                                              fragment |-> fragment])
               /\ iconText' = Put(iconText, file, svg)
  /\ fileQueue' = Tail(fileQueue)
  /\ UNCHANGED << constVars, watchVars, projectFiles, calls, pc, index, invalidAliases, srcIndex,
                  locIdx, aliasIdx, scanVars, spriteSheet, renderCalls, sink, outcome >>
\* a failed read is swallowed and the entry skipped
ConcatenateThrows_Skips ==
  /\ pc = "concat"
  /\ fileQueue # <<>>
  /\ unreadable(Head(fileQueue)[2])
  /\ iconText' = Put(iconText, Head(fileQueue)[2], NoFile)
  /\ fileQueue' = Tail(fileQueue)
  /\ UNCHANGED << constVars, watchVars, projectFiles, calls, pc, index, invalidAliases, srcIndex,
                  locIdx, aliasIdx, scanVars, fileContents, fragLog, spriteSheet,
                  renderCalls, sink, outcome >>

\* Bun.file(file).text() rejects: concatenateSvgs, render and bundleSprites throw
ConcatenateThrows ==
  /\ pc = "concat"
  /\ fileQueue # <<>>
  /\ unreadable(Head(fileQueue)[2])
  /\ iconText' = Put(iconText, Head(fileQueue)[2], NoFile)
  /\ fileQueue' = Tail(fileQueue)
  /\ pc' = "done"
  /\ outcome' = "error:render"
  /\ UNCHANGED << constVars, watchVars, projectFiles, calls, index, invalidAliases, srcIndex, locIdx,
                  aliasIdx, scanVars, fileContents, fragLog, spriteSheet, renderCalls,
                  sink >>

\* the queue is drained: wrap in the template and optimize; render returns
Optimize ==
  /\ pc = "concat"
  /\ fileQueue = <<>>
  /\ spriteSheet' = optimize(spriteTemplate(fileContents))
  /\ IF cfg.mode = "render"
     THEN pc' = "done" /\ outcome' = "rendered"
     ELSE pc' = "write" /\ outcome' = outcome
  /\ UNCHANGED << constVars, watchVars, envVars, calls, index, invalidAliases, srcIndex, locIdx, aliasIdx,
                  scanVars, fileQueue, fileContents, fragLog, renderCalls, sink >>

\* Bun.write(outFile, spriteSheet) succeeds
Write ==
  /\ pc = "write"
  /\ sink' = Append(sink, spriteSheet)
  /\ pc' = "done"
  /\ outcome' = "written"
  /\ UNCHANGED << constVars, watchVars, envVars, calls, index, invalidAliases, srcIndex, locIdx, aliasIdx,
                  scanVars, fileQueue, fileContents, fragLog, spriteSheet, renderCalls >>

\* Bun.write is invoked and fails with an I/O error
WriteThrows ==
  /\ pc = "write"
  /\ sink' = Append(sink, spriteSheet)
  /\ pc' = "done"
  /\ outcome' = "error:write"
  /\ UNCHANGED << constVars, watchVars, envVars, calls, index, invalidAliases, srcIndex, locIdx, aliasIdx,
                  scanVars, fileQueue, fileContents, fragLog, spriteSheet, renderCalls >>

Next ==
  \/ BundleSprites
  \/ CallSearch
  \/ SearchStart
  \/ IndexLocalPath
  \/ IndexPackage
  \/ IndexPackageThrows
  \/ IndexPathsDone
  \/ ResolveAlias
  \/ BuildIndexReturns
  \/ EnumerateFiles
  \/ LoopEnds
  \/ EarlyExit
  \/ ReadBatch
  \/ ReadBatchThrows
  \/ TokenizeFile
  \/ BatchDone
  \/ SearchReturns
  \/ BundleNoMatches
  \/ NewSpriteGenerator
  \/ CallRender
  \/ Render
  \/ ConcatenateNext
  \/ ConcatenateSkip
  \/ ConcatenateThrows
  \/ Optimize
  \/ Write
  \/ WriteThrows

Spec == Init /\ [][Next]_vars

----------------------------------------------------------------------------
(* Repeated invocations: bundleSprites again, search() again on one instance *)

AgainPaths ==
  { << <<".", "icons">> >>, << <<"pkg", "svg">> >>, << <<".", "alt">>, <<"ghost">> >> }

AgainConfigs ==
  {Config(mode, ps, al, <<IconDash>>) :
     mode \in {"bundle", "search"}, ps \in AgainPaths, al \in ScanAliases}

InitAgain ==
  /\ cfg \in AgainConfigs
  /\ FILE_READ_BATCH_SIZE = 1
  /\ Constructed

NextAgain ==
  \/ BundleSprites
  \/ BundleSpritesAgain
  \/ CallSearch
  \/ CallSearchAgain
  \/ SearchStart
  \/ IndexLocalPath
  \/ IndexPackage
  \/ IndexPackageThrows
  \/ IndexPathsDone
  \/ ResolveAlias
  \/ BuildIndexReturns
  \/ EnumerateFiles
  \/ LoopEnds
  \/ EarlyExit
  \/ ReadBatch
  \/ ReadBatchThrows
  \/ TokenizeFile
  \/ BatchDone
  \/ SearchReturns
  \/ BundleNoMatches
  \/ NewSpriteGenerator
  \/ Render
  \/ ConcatenateNext
  \/ ConcatenateThrows
  \/ Optimize
  \/ Write
  \/ WriteThrows

SpecAgain == InitAgain /\ [][NextAgain]_vars

----------------------------------------------------------------------------
(* render() called again on one SpriteGenerator                            *)

\* a second render() on the instance: concatenateSvgs() iterates this.fileQueue, the
\* iterator the constructor took from inputFiles.entries(), where the first call left it
RenderAgain ==
  /\ pc = "done"
  /\ cfg.mode = "render"
  /\ outcome = "rendered"
  /\ calls < MaxCalls
  /\ calls' = calls + 1
  /\ pc' = "render"
  /\ UNCHANGED << constVars, watchVars, envVars, index, invalidAliases, srcIndex, locIdx,
                  aliasIdx, scanVars, spriteVars, outcome >>

InitRender ==
  /\ cfg \in RenderConfigs
  /\ FILE_READ_BATCH_SIZE = 1
  /\ Constructed

NextRender ==
  \/ CallRender
  \/ RenderAgain
  \/ Render
  \/ ConcatenateSkip
  \/ ConcatenateNext
  \/ ConcatenateThrows
  \/ Optimize

SpecRender == InitRender /\ [][NextRender]_vars

----------------------------------------------------------------------------
(* Options left out or passed as undefined                                 *)

\* an option of the caller's object: the key is absent, holds undefined, or a value
Omitted   == [kind |-> "omitted"]
Undefined == [kind |-> "undefined"]
Given(v)  == [kind |-> "given", value |-> v]

\* String(undefined), what "+" and a template literal make of undefined
UndefinedText == <<"u", "n", "d", "e", "f", "i", "n", "e", "d">>

\* IconSearch.defaults, for the options the model follows
defaults == [paths |-> Given(<<>>), idPrefix |-> Given(NoPrefix)]

\* what the caller may write for paths and idPrefix
CallerOptions ==
  [paths    : {Omitted, Undefined, Given(<<>>), Given(<< <<".", "alt">> >>)},
   idPrefix : {Omitted, Undefined, Given(NoPrefix), Given(IconDash)}]

\* the object literal of bundleSprites, "paths: config.paths, idPrefix: config.idPrefix":
\* every key is present, an absent one of config with the value undefined
iconSearchConfig(config) ==
  [f \in DOMAIN config |-> IF config[f].kind = "omitted" THEN Undefined ELSE config[f]]

\* Object.assign({}, defaults, options): a key of options wins whatever its value
assign(base, options) ==
  [f \in DOMAIN base |-> IF options[f].kind = "omitted" THEN base[f] ELSE options[f]]

\* the options an IconSearch ends up with: idPrefixes is [idPrefix].flat(), whose
\* element is used only in "idPrefixes[i] + baseId" and (by bundleSprites) in
\* `${idPrefix}${id}`, which turn undefined into its text
MergedConfig(mode, config) ==
  LET options == assign(defaults,
                        IF mode = "bundle" THEN iconSearchConfig(config) ELSE config)
  IN  [mode       |-> mode,
       paths      |-> IF options["paths"].kind = "given"
                      THEN options["paths"].value ELSE <<>>,
       aliases    |-> <<>>,
       idPrefix   |-> << IF options["idPrefix"].kind = "given"
                         THEN options["idPrefix"].value ELSE UndefinedText >>,
       inputFiles |-> <<>>,
       undefined  |-> {f \in DOMAIN options : options[f].kind = "undefined"}]

\* project files that name the icon by its base name and by "undefined" + base name
DefaultsProjects ==
  { <<>>,
    << Text(<<"a">>) >>,
    << Text(UndefinedText \o <<"a">>), Text(<<"a">>) >> }

InitDefaults ==
  /\ cfg \in {MergedConfig(mode, c) : mode \in {"bundle", "search"}, c \in CallerOptions}
  /\ FILE_READ_BATCH_SIZE = 1
  /\ NewInstance
  /\ projectFiles \in {Enumerated(fs) : fs \in DefaultsProjects}

NextDefaults ==
  \/ BundleSprites
  \/ CallSearch
  \/ SearchStart
  \/ BuildIndexNotIterable
  \/ IndexLocalPath
  \/ IndexPathsDone
  \/ BuildIndexReturns
  \/ EnumerateFiles
  \/ LoopEnds
  \/ EarlyExit
  \/ ReadBatch
  \/ TokenizeFile
  \/ BatchDone
  \/ SearchReturns
  \/ BundleNoMatches
  \/ NewSpriteGenerator
  \/ Render
  \/ ConcatenateNext
  \/ ConcatenateThrows
  \/ Optimize
  \/ Write
  \/ WriteThrows

SpecDefaults == InitDefaults /\ [][NextDefaults]_vars

----------------------------------------------------------------------------
(* The CLI in watch mode                                                   *)

\* everything a build works on; the watcher itself touches none of it
buildVars == << constVars, envVars, calls, pc, index, invalidAliases, srcIndex, locIdx,
                aliasIdx, scanVars, spriteVars, outcome >>

\* debouncedBundler(): clear the timer "timeout" names, if any, and schedule a new one.
\* clearTimeout of a handle that has fired already changes nothing.
debouncedBundler(t, pending, last) ==
  [timeout |-> last + 1,
   timers  |-> (IF t # 0 THEN pending \ {t} ELSE pending) \cup {last + 1}]

\* "if (watch)": the startup call of debouncedBundler(), then fsWatch is installed
StartWatch ==
  /\ watching = "off"
  /\ pc = "idle"
  /\ cfg.mode = "bundle"
  /\ LET d == debouncedBundler(timeout, timers, scheduled)
     IN  timeout' = d.timeout /\ timers' = d.timers
  /\ scheduled' = scheduled + 1
  /\ watching' = "on"
  /\ UNCHANGED << buildVars, inFlight, events >>

\* the fsWatch callback for a missing file name or one the glob does not match
IgnoredEvent ==
  /\ watching = "on"
  /\ events < MaxEvents
  /\ events' = events + 1
  /\ UNCHANGED << buildVars, watching, timeout, timers, scheduled, inFlight >>

\* the fsWatch callback for a file name the glob matches
ChangeEvent ==
  /\ watching = "on"
  /\ events < MaxEvents
  /\ events' = events + 1
  /\ LET d == debouncedBundler(timeout, timers, scheduled)
     IN  timeout' = d.timeout /\ timers' = d.timers
  /\ scheduled' = scheduled + 1
  /\ UNCHANGED << buildVars, watching, inFlight >>

\* a pending timer expires: its callback calls bundleSprites(...) and awaits it
TimerFires ==
  /\ watching = "on"
  /\ \E t \in timers : timers' = timers \ {t}
  /\ inFlight' = inFlight + 1
  /\ UNCHANGED << buildVars, watching, timeout, scheduled, events >>

\* a bundleSprites call resolves; the callback goes on with "timeout = null"
BuildCompletes ==
  /\ watching = "on"
  /\ inFlight > 0
  /\ inFlight' = inFlight - 1
  /\ timeout' = 0
  /\ UNCHANGED << buildVars, watching, timers, scheduled, events >>

\* a bundleSprites call rejects: the callback's promise rejects with nobody handling
\* it, "timeout = null" is not executed, and the runtime goes on or ends the process
BuildThrows ==
  /\ watching = "on"
  /\ inFlight > 0
  /\ inFlight' = inFlight - 1
  /\ watching' \in {"on", "exited"}
  /\ UNCHANGED << buildVars, timeout, timers, scheduled, events >>

InitWatch ==
  /\ cfg = Config("bundle", << <<".", "alt">> >>, <<>>, <<NoPrefix>>)
  /\ FILE_READ_BATCH_SIZE = 1
  /\ Constructed

NextWatch ==
  \/ StartWatch
  \/ IgnoredEvent
  \/ ChangeEvent
  \/ TimerFires
  \/ BuildCompletes
  \/ BuildThrows

SpecWatch == InitWatch /\ [][NextWatch]_vars

----------------------------------------------------------------------------
(* Properties of the scanner                                               *)

Names(found) == {found[k][1] : k \in DOMAIN found}

\* the non-empty tokens of the first k enumerated files
TokensUpTo(k) ==
  UNION {Range(Split(filePaths[j].text)) : j \in 1..Min(k, Len(filePaths))} \ {<<>>}

\* every token of the corpus, in file-enumeration order then left to right
RECURSIVE Occurrences(_)
Occurrences(files) ==
  IF files = <<>> THEN <<>>
  ELSE Split(Head(files).text) \o Occurrences(Tail(files))

FirstPos(occ, n) == CHOOSE k \in DOMAIN occ : occ[k] = n /\ \A j \in 1..(k - 1) : occ[j] # n

\* index names, other than n, registered for the same file as n
Synonyms(n) == {m \in DOMAIN index : m # n /\ index[m] = index[n]}

SearchReturned == pc \in {"searched", "render", "concat", "write"} \/
                  (pc = "done" /\ outcome \in {"searched", "noMatches", "written",
                                               "error:render", "error:write"})

\* C1: in every state of search() and in the returned match set, no icon path is the
\* value of two entries (and no name is the key of two entries).
C1_PathsAtMostOnce ==
  \A p, q \in DOMAIN foundMatches :
    p # q => foundMatches[p][2] # foundMatches[q][2] /\ foundMatches[p][1] # foundMatches[q][1]

\* two names of one file were both met by the scan, which has returned
C1_Witness ==
  /\ pc = "searched"
  /\ \E n \in TokensUpTo(filesScanned) \cap DOMAIN index :
       Synonyms(n) \cap TokensUpTo(filesScanned) # {}

\* C2: the key kept for a file is, among the index names of that file that occur in
\* the corpus, the one occurring first (file order, then token order); no other name
\* of that file is ever a key.
C2_FirstOccurrenceWins ==
  LET occ == Occurrences(filePaths)
  IN  \A k \in DOMAIN foundMatches :
        LET name == foundMatches[k][1]
        IN  /\ name \in Range(occ)
            /\ name \in DOMAIN index
            /\ index[name] = foundMatches[k][2]
            /\ \A m \in Synonyms(name) :
                 /\ m \notin Names(foundMatches)
                 /\ m \in Range(occ) => FirstPos(occ, name) < FirstPos(occ, m)

\* the scan returned with a key that has a synonym elsewhere in the corpus, the
\* synonym being registered under the file's base name
C2_Witness ==
  /\ pc = "searched"
  /\ Len(filePaths) = 2
  /\ \E k \in DOMAIN foundMatches :
       /\ foundMatches[k][1] # basename(foundMatches[k][2])
       /\ basename(foundMatches[k][2]) \in Range(Occurrences(filePaths))

\* a strictly file-by-file scan: the early-exit test before every single file
RECURSIVE FileByFile(_, _)
FileByFile(st, files) ==
  IF files = <<>> \/ st.remaining = {} THEN st
  ELSE LET toks == Split(Head(files).text)
           hit(k) == /\ toks[k] # <<>>
                     /\ toks[k] \in st.remaining
                     /\ \A j \in 1..(k - 1) : toks[j] # toks[k]
           hits == SelectSeq([k \in DOMAIN toks |-> k], hit)
           \* hits that claim a path no earlier hit and no earlier file has claimed
           claim(k) == /\ index[toks[k]] \notin st.bundled
                       /\ \A j \in 1..(k - 1) : hit(j) => index[toks[j]] # index[toks[k]]
           claims == SelectSeq(hits, claim)
       IN  FileByFile(
             [remaining |-> st.remaining \ {toks[k] : k \in Range(hits)},
              bundled   |-> st.bundled \cup {index[toks[k]] : k \in Range(claims)},
              found     |-> st.found \o [c \in DOMAIN claims |->
                                           <<toks[claims[c]], index[toks[claims[c]]]>>]],
             Tail(files))

RemainingAfter(k) == (DOMAIN index) \ TokensUpTo(k)

\* number of files in the batches that precede the batch of file k
BatchStart(k) == ((k - 1) \div FILE_READ_BATCH_SIZE) * FILE_READ_BATCH_SIZE

\* C4 as stated: a file is read only if some name was still unmatched after the files
\* enumerated before it.
C4_NoFileReadAfterAllFound ==
  \A k \in filesRead : RemainingAfter(k - 1) # {}

\* C4 amended: a file is read, and tokenized, only if some name was still unmatched
\* when its batch began; once all names are matched no later batch is read.
C4_NoBatchReadAfterAllFound ==
  /\ \A k \in filesRead : RemainingAfter(BatchStart(k)) # {}
  /\ filesScanned <= Cardinality(filesRead)
  /\ pc = "searched" =>
       \A k \in 1..Len(filePaths) :
         k \notin filesRead => RemainingAfter(BatchStart(k)) = {}

\* the early exit fired with files left unread
C4_Witness ==
  /\ pc = "searched"
  /\ index # EmptyMap
  /\ remainingIconNames = {}
  /\ filesRead # {}
  /\ Cardinality(filesRead) < Len(filePaths)

----------------------------------------------------------------------------
(* Properties of the orchestrator and of the sprite generator              *)

\* C5: when search() returns an empty match set, bundleSprites returns normally
\* without calling render() and without invoking the sink.
C5_NoMatchesNoRender ==
  (cfg.mode = "bundle" /\ SearchReturned /\ foundMatches = <<>>) =>
    /\ renderCalls = 0
    /\ sink = <<>>
    /\ pc \in {"searched", "done"}
    /\ pc = "done" => outcome = "noMatches"

\* a non-empty index was scanned against a non-empty corpus and nothing matched
C5_Witness ==
  /\ pc = "done"
  /\ outcome = "noMatches"
  /\ index # EmptyMap
  /\ filesScanned >= 1

\* C6: in every execution of bundleSprites the sink is invoked at most once, after
\* render() completed with one fragment per match, and with the rendered document;
\* when indexing, scanning or rendering fails the sink is not invoked and the error
\* is the outcome.
C6_SinkOnlyAfterRender ==
  /\ Len(sink) <= calls
  /\ pc \in {"idle", "search", "buildIndex", "aliases", "glob", "loop", "tokenize",
             "searched", "render", "concat", "write"} =>
       sink = <<>> \/ Len(sink) < calls
  /\ (pc = "done" /\ Len(sink) = calls /\ calls >= 1) =>
       /\ renderCalls = calls
       /\ fileQueue = <<>>
       /\ Len(fileContents) = Len(foundMatches)
       /\ sink[Len(sink)] = spriteSheet
       /\ Len(spriteSheet.kids) = Len(foundMatches)
  /\ outcome \in {"error:resolve", "error:scan", "error:render"} => sink = <<>> /\ pc = "done"

\* rendering failed after a fragment had already been produced
C6_Witness ==
  /\ outcome = "error:render"
  /\ Len(fileContents) >= 1
  /\ sink = <<>>

\* the id carried by the k-th definition of a sprite sheet
SymbolId(sheet, k) ==
  IF HasAttr(sheet.kids[k], "id") THEN AttrOf(sheet.kids[k], "id") ELSE <<"no id">>

\* C7: an icon matched through its base name or through its prefixed name ends up as
\* a definition whose identifier is prefix + base name (stated for icon files that
\* begin with "<svg" and whitespace).
C7_OutputIdIsPrefixPlusBase ==
  (pc = "done" /\ outcome = "written") =>
    \A k \in DOMAIN fragLog :
      LET base == basename(fragLog[k].file)
          pfx  == cfg.idPrefix[1]
      IN  (/\ fragLog[k].id \in {base, pfx \o base}
           /\ fragLog[k].svg.pre = <<>>
           /\ fragLog[k].svg.gap >= 1) =>
            /\ sink[Len(sink)].kids[k].name = "symbol"
            /\ SymbolId(sink[Len(sink)], k) = pfx \o base

\* C8: every fragment's root carries id = idPrefix + name (name alone for an empty
\* prefix) ahead of the root's own attributes, which are otherwise unchanged, for
\* every icon markup.
C8_IdInjectedIntoEveryRoot ==
  \A k \in DOMAIN fragLog :
    LET e == fragLog[k]
    IN  /\ e.fragment.attrs = <<Attr("id", cfg.idPrefix[1] \o e.id)>> \o e.svg.attrs
        /\ e.fragment.pre = e.svg.pre
        /\ e.fragment.kids = e.svg.kids

----------------------------------------------------------------------------
(* Properties of the index                                                 *)

\* directory a configured location stands for (packages: the installed directory)
LocationDir(path) ==
  IF pathIsNodeModule(path) THEN resolvePackage(path).dir ELSE resolve(cwd, path)

\* the .svg files visited by the iterations of the location loop that completed
RECURSIVE DiscoveredIn(_, _)
DiscoveredIn(paths, n) ==
  IF n = 0 THEN <<>>
  ELSE LET dir == LocationDir(paths[n])
       IN  DiscoveredIn(paths, n - 1) \o
           SelectSeq(IconFiles, LAMBDA f : f.ext = "svg" /\ IsPrefixOf(dir, f.dir))

Discovered == DiscoveredIn(cfg.paths, locIdx - 1)

\* base identifier and prefixed identifiers of a file
ExpectedIds(f) == {f.stem} \cup {cfg.idPrefix[k] \o f.stem : k \in DOMAIN cfg.idPrefix}

AliasesResolved == {cfg.aliases[k] : k \in 1..Min(aliasIdx - 1, Len(cfg.aliases))}

\* C9: every discovered .svg file has its base identifier and each prefix + base
\* identifier in the index, mapped to that file unless a later file or an alias
\* registered the same name afterwards.
C9_BaseAndPrefixedRegistered ==
  LET found == Discovered
  IN  \A k \in DOMAIN found : \A id \in ExpectedIds(found[k]) :
        /\ id \in DOMAIN index
        /\ \/ index[id] = found[k]
           \/ \E j \in (k + 1)..Len(found) : id \in ExpectedIds(found[j])
           \/ \E a \in AliasesResolved : a.alias = id /\ a.iconId \in DOMAIN index

\* buildIndex finished on two prefixes, with a file whose names were taken over by a
\* later file
C9_Witness ==
  /\ pc = "done"
  /\ outcome = "indexed"
  /\ Len(cfg.idPrefix) = 2
  /\ \E k \in DOMAIN Discovered :
       /\ index[Discovered[k].stem] # Discovered[k]
       /\ \E j \in DOMAIN Discovered : index[cfg.idPrefix[2] \o Discovered[j].stem] = Discovered[j]

BuildIndexDone == pc = "done" /\ outcome = "indexed"

\* C10 as stated: an alias whose target is not in the index is not an index key and
\* is in invalidAliases.
C10_InvalidAliasNeverAKey ==
  BuildIndexDone =>
    \A a \in Range(cfg.aliases) :
      a.iconId \notin DOMAIN index =>
        a.alias \notin DOMAIN index /\ a.alias \in invalidAliases

\* C10 amended: an alias whose target is not in the index is in invalidAliases and is
\* not registered by alias resolution; its name is an index key only where an icon
\* file registered that name, and then still maps to that icon file.
C10_InvalidAliasNeverRegistered ==
  BuildIndexDone =>
    \A a \in Range(cfg.aliases) :
      a.iconId \notin DOMAIN index =>
        /\ a.alias \in invalidAliases
        /\ a.alias \in DOMAIN index =>
             /\ a.alias \in DOMAIN srcIndex
             /\ index[a.alias] = srcIndex[a.alias]
             /\ \E f \in Range(Discovered) : a.alias \in ExpectedIds(f)

\* an invalid alias named like an indexed icon, next to one that is no icon name
C10_Witness ==
  /\ BuildIndexDone
  /\ \E a, b \in Range(cfg.aliases) :
       /\ a.iconId \notin DOMAIN index /\ a.alias \in DOMAIN index
       /\ b.iconId \notin DOMAIN index /\ b.alias \notin DOMAIN index

----------------------------------------------------------------------------
(* Properties of alias resolution                                          *)

\* C11 as stated: after buildIndex, every alias whose target is in the index maps to
\* the path its target maps to, whatever the aliases target or shadow.
C11_AliasEqualsTargetAtEnd ==
  BuildIndexDone =>
    \A a \in Range(cfg.aliases) :
      a.iconId \in DOMAIN index =>
        a.alias \in DOMAIN index /\ index[a.alias] = index[a.iconId]

\* The path a name maps to just before alias k is resolved, as {path}, or {} when
\* the name is not in the index then: the target of the earlier alias of that name
\* if that alias was valid, else the icon file registered under the name.
RECURSIVE PathAt(_, _)
PathAt(name, k) ==
  LET earlier == {j \in 1..(k - 1) : cfg.aliases[j].alias = name
                                      /\ PathAt(cfg.aliases[j].iconId, j) # {}}
  IN  IF earlier # {}
      THEN LET j == CHOOSE x \in earlier : TRUE IN PathAt(cfg.aliases[j].iconId, j)
      ELSE IF name \in DOMAIN srcIndex THEN {srcIndex[name]} ELSE {}

\* a later alias that is valid and registers the name
ShadowedAfter(name, k) ==
  \E j \in (k + 1)..Len(cfg.aliases) :
    cfg.aliases[j].alias = name /\ PathAt(cfg.aliases[j].iconId, j) # {}

\* C11 amended: aliases are resolved after the source locations, in configured order,
\* each against the index as it is at that moment.  An alias whose target is in the
\* index when the alias is resolved maps, after buildIndex, to the path the target had
\* at that moment; that is the target's final path unless a later alias re-registers
\* the target's name.  An alias whose target is registered only later is invalid.
C11_AliasEqualsTargetWhenResolved ==
  /\ pc \in {"idle", "buildIndex"} => aliasIdx = 1 /\ invalidAliases = {}
  /\ pc = "aliases" \/ BuildIndexDone => locIdx = Len(cfg.paths) + 1
  /\ BuildIndexDone =>
       \A k \in DOMAIN cfg.aliases :
         LET a == cfg.aliases[k]
         IN  IF PathAt(a.iconId, k) # {}
             THEN /\ a.alias \in DOMAIN index
                  /\ {index[a.alias]} = PathAt(a.iconId, k)
                  /\ ~ShadowedAfter(a.iconId, k) => index[a.alias] = index[a.iconId]
             ELSE a.alias \in invalidAliases

\* an alias that shadows an icon name which an earlier alias targets: the earlier
\* alias keeps the icon's path, the icon name moves to another path
C11_Witness ==
  /\ BuildIndexDone
  /\ \E j, k \in DOMAIN cfg.aliases :
       /\ j < k
       /\ cfg.aliases[j].iconId = cfg.aliases[k].alias
       /\ cfg.aliases[k].alias \in DOMAIN srcIndex
       /\ cfg.aliases[k].alias \notin invalidAliases
       /\ index[cfg.aliases[j].alias] = srcIndex[cfg.aliases[j].iconId]
       /\ index[cfg.aliases[j].alias] # index[cfg.aliases[j].iconId]

\* a configured location that names a package which cannot be resolved
Unresolvable(path) == pathIsNodeModule(path) /\ ~resolvePackage(path).ok

\* C12: when a configured location cannot be resolved the build fails as a whole: the
\* entries of the locations indexed before it are not retained, and no later search()
\* on the same instance scans with them.
C12_FailedBuildLeavesNoIndex ==
  /\ outcome = "error:resolve" => index = EmptyMap
  /\ (\E k \in DOMAIN cfg.paths : Unresolvable(cfg.paths[k])) =>
       /\ pc \notin {"glob", "loop", "tokenize", "searched"}
       /\ foundMatches = <<>>

\* the directory a package location names: the installed package root followed by the
\* location's subpath
PackageDir(name) == cwd \o <<"node_modules">> \o name

\* the directory any configured location names
ConfiguredDir(path) == IF pathIsNodeModule(path) THEN PackageDir(path) ELSE resolve(cwd, path)

\* C13: for a package location resolvePackage returns the package root followed by the
\* subpath, whichever way the package was found, and fails only when it is found in
\* neither way; so every indexed file lies below a configured location.
C13_ResolvesToRootPlusSubpath ==
  /\ \A k \in 1..Min(locIdx - 1, Len(cfg.paths)) :
       pathIsNodeModule(cfg.paths[k]) =>
         /\ resolvePackage(cfg.paths[k]).ok
         /\ resolvePackage(cfg.paths[k]).dir = PackageDir(cfg.paths[k])
  /\ outcome = "error:resolve" => ~exists(PackageDir(cfg.paths[locIdx]))
  /\ \A n \in DOMAIN index :
       \E k \in DOMAIN cfg.paths : IsPrefixOf(ConfiguredDir(cfg.paths[k]), index[n].dir)

----------------------------------------------------------------------------
(* Properties of repeated invocations                                      *)

\* C14: search() enters buildIndex only when the index is empty; a search() on an
\* instance whose index is not empty goes straight to the project glob, and no step of
\* search() outside buildIndex changes the index, invalidAliases or the options; every
\* call starts its scan with an empty match set.
C14_SearchReusesIndex ==
  [][ /\ (pc = "search" /\ index # EmptyMap) => pc' = "glob"
      /\ (pc = "search" /\ pc' = "buildIndex") => index = EmptyMap
      /\ (cfg.mode = "search" /\ pc \notin {"buildIndex", "aliases"}) =>
           index' = index /\ invalidAliases' = invalidAliases /\ cfg' = cfg
      /\ (pc = "glob" /\ pc' = "loop") => foundMatches' = <<>> /\ bundledFilePaths' = {}
    ]_vars

\* a second search() on the same instance returned matches from the index built by
\* the first, which had recorded an invalid alias
C14_Witness ==
  /\ cfg.mode = "search"
  /\ calls = 2
  /\ pc = "done"
  /\ outcome = "searched"
  /\ index # EmptyMap
  /\ invalidAliases # {}
  /\ foundMatches # <<>>

\* C15: with the configuration and the filesystem unchanged, every invocation of
\* bundleSprites hands the same document to the sink, and every invocation starts
\* from an empty index, an empty invalid-alias set and an empty match set.
C15_ReinvocationSameDocument ==
  /\ \A j, k \in DOMAIN sink : sink[j] = sink[k]
  /\ (cfg.mode = "bundle" /\ pc = "search") =>
       index = EmptyMap /\ invalidAliases = {} /\ foundMatches = <<>>
  /\ (cfg.mode = "bundle" /\ pc = "concat") =>
       Len(fileContents) + Len(fileQueue) = Len(foundMatches)

\* the second invocation wrote a document with two definitions
C15_Witness ==
  /\ cfg.mode = "bundle"
  /\ calls = 2
  /\ pc = "done"
  /\ outcome = "written"
  /\ Len(sink) = 2
  /\ Len(sink[2].kids) = 2

----------------------------------------------------------------------------
(* Properties of the rendered sprite                                       *)

\* render() returned a document
Rendered ==
  \/ pc = "write"
  \/ pc = "done" /\ outcome \in {"written", "error:write", "rendered"}

\* the match set the generator was constructed with
MatchSet == IF cfg.mode = "render" THEN cfg.inputFiles ELSE foundMatches

\* C16: in the rendered sprite every icon root is a symbol and there are as many of
\* them as match-set entries; no element below the wrapper is named svg (a nested svg
\* of an icon is a symbol too); the wrapper is the only svg.
C16_IconRootsBecomeSymbols ==
  Rendered =>
    /\ spriteSheet.name = "svg"
    /\ Len(spriteSheet.kids) = Len(MatchSet)
    /\ \A k \in DOMAIN spriteSheet.kids :
         /\ spriteSheet.kids[k].name = "symbol"
         /\ \A j \in DOMAIN spriteSheet.kids[k].kids :
              /\ spriteSheet.kids[k].kids[j].name # "svg"
              /\ fragLog[k].svg.kids[j].name = "svg" =>
                   spriteSheet.kids[k].kids[j].name = "symbol"

\* the document the custom fill rule receives: after the generic rules and the rename
FillRuleInput == Visit(convertSvgToSymbol, generic(spriteTemplate(fileContents)))

IsShape(e) == e.name \in {"path", "ellipse", "rect", "circle"}

HasFillAttribute(e) == \E k \in DOMAIN e.attrs : e.attrs[k].k = "fill"

\* the inline style holds the text "fill:"
HasFillInStyle(e) ==
  \E k \in DOMAIN e.attrs :
    /\ e.attrs[k].k = "style"
    /\ \E p \in 1..Len(e.attrs[k].v) :
         /\ p + 4 <= Len(e.attrs[k].v)
         /\ <<e.attrs[k].v[p], e.attrs[k].v[p + 1], e.attrs[k].v[p + 2],
              e.attrs[k].v[p + 3], e.attrs[k].v[p + 4]>> = <<"f", "i", "l", "l", ":">>

\* attributes the later strip rule leaves on an element
Kept(e) ==
  IF e.name = "symbol" THEN SelectSeq(e.attrs, LAMBDA a : a.k \notin {"width", "height"})
  ELSE e.attrs

\* what C17 asks of one element, given the element as the rule received it
FillRuleHolds(before, after) ==
  /\ after.name = before.name
  /\ IF IsShape(before) /\ ~HasFillAttribute(before) /\ ~HasFillInStyle(before)
     THEN after.attrs = Append(before.attrs, Attr("fill", <<"currentColor">>))
     ELSE after.attrs = Kept(before)

\* C17: an element gains fill="currentColor" exactly when it is a path, ellipse, rect
\* or circle with no fill attribute and no "fill:" in its style attribute; every other
\* element leaves the rule as it entered it.
C17_FillIffShapeWithoutFill ==
  Rendered =>
    LET before == FillRuleInput
    IN  /\ FillRuleHolds(before, spriteSheet)
        /\ \A k \in DOMAIN before.kids :
             /\ FillRuleHolds(before.kids[k], spriteSheet.kids[k])
             /\ \A j \in DOMAIN before.kids[k].kids :
                  FillRuleHolds(before.kids[k].kids[j], spriteSheet.kids[k].kids[j])

\* a sprite with a path whose style sets the fill (kept as it is), a path whose style
\* sets only the stroke (gains the fill), and an ellipse that came with fill=""
C17_Witness ==
  /\ Rendered
  /\ \E k \in DOMAIN spriteSheet.kids :
       \E p, q \in DOMAIN spriteSheet.kids[k].kids :
         /\ HasFillInStyle(spriteSheet.kids[k].kids[p])
         /\ ~HasFillAttribute(spriteSheet.kids[k].kids[p])
         /\ HasAttr(spriteSheet.kids[k].kids[q], "style")
         /\ AttrOf(spriteSheet.kids[k].kids[q], "style") = StrokeRed
         /\ HasAttr(spriteSheet.kids[k].kids[q], "fill")
         /\ AttrOf(spriteSheet.kids[k].kids[q], "fill") = <<"currentColor">>
  /\ \E k \in DOMAIN fragLog :
       \E p \in DOMAIN fragLog[k].svg.kids :
         /\ fragLog[k].svg.kids[p].name = "ellipse"
         /\ HasAttr(fragLog[k].svg.kids[p], "fill")
         /\ AttrOf(fragLog[k].svg.kids[p], "fill") = <<>>
         /\ AttrOf(spriteSheet.kids[k].kids[p], "fill") = <<"currentColor">>

HasSize(e) == \E k \in DOMAIN e.attrs : e.attrs[k].k \in {"width", "height"}

\* C18: no symbol of the rendered sprite carries width or height, whatever the icon's
\* root (or a nested svg) carried; the wrapper keeps width="0" and height="0".
C18_SymbolsLoseSizeWrapperKeepsIt ==
  Rendered =>
    /\ spriteSheet.name = "svg"
    /\ \E p, q \in DOMAIN spriteSheet.attrs :
         /\ spriteSheet.attrs[p] = Attr("width", <<"0">>)
         /\ spriteSheet.attrs[q] = Attr("height", <<"0">>)
    /\ \A k \in DOMAIN spriteSheet.kids :
         /\ ~HasSize(spriteSheet.kids[k])
         /\ \A j \in DOMAIN spriteSheet.kids[k].kids :
              spriteSheet.kids[k].kids[j].name = "symbol" =>
                ~HasSize(spriteSheet.kids[k].kids[j])
         /\ Kept(FillRuleInput.kids[k]) = spriteSheet.kids[k].attrs

\* a sprite made of an icon whose root had width and height and of an icon with a
\* nested svg that had a width
C18_Witness ==
  /\ Rendered
  /\ \E k \in DOMAIN fragLog : HasSize(fragLog[k].svg) /\ fragLog[k].svg.gap = 2
  /\ \E k \in DOMAIN fragLog :
       \E j \in DOMAIN fragLog[k].svg.kids :
         fragLog[k].svg.kids[j].name = "svg" /\ HasSize(fragLog[k].svg.kids[j])

\* C19: an icon file that cannot be read aborts the render and no document is
\* produced; no match-set entry leaves the queue without a fragment, so a render that
\* succeeds has one fragment, and one symbol, per match-set entry.
C19_NoEntrySilentlySkipped ==
  /\ pc = "concat" => Len(fileContents) + Len(fileQueue) = Len(MatchSet)
  /\ Rendered =>
       /\ Len(fileContents) = Len(MatchSet)
       /\ \A k \in DOMAIN MatchSet : fragLog[k].file = MatchSet[k][2]
  /\ outcome = "error:render" =>
       /\ pc = "done"
       /\ Len(sink) < calls
       /\ Len(fileContents) < Len(MatchSet)

----------------------------------------------------------------------------
(* Properties of the tokenizer                                             *)

LowerCase == {"a", "b", "c", "d", "e", "f", "g", "h", "i", "j", "k", "l", "m",
              "n", "o", "p", "q", "r", "s", "t", "u", "v", "w", "x", "y", "z"}
UpperCase == {"A", "B", "C", "D", "E", "F", "G", "H", "I", "J", "K", "L", "M",
              "N", "O", "P", "Q", "R", "S", "T", "U", "V", "W", "X", "Y", "Z"}
Digits    == {"0", "1", "2", "3", "4", "5", "6", "7", "8", "9"}

\* [a-zA-Z0-9_:-]
InClass(ch) == ch \in LowerCase \cup UpperCase \cup Digits \cup {"_", ":", "-"}

\* the maximal runs of class characters of a text
MaximalRuns(t) ==
  {SubSeq(t, a, b) : <<a, b>> \in
     {r \in (1..Len(t)) \X (1..Len(t)) :
        /\ r[1] <= r[2]
        /\ \A k \in r[1]..r[2] : InClass(t[k])
        /\ r[1] = 1 \/ ~InClass(t[r[1] - 1])
        /\ r[2] = Len(t) \/ ~InClass(t[r[2] + 1])}}

\* C20: the tokens of a scanned file are the maximal runs of characters of
\* [a-zA-Z0-9_:-], capitals included: a text made only of such characters is one token,
\* and the names matched are the index names among those runs.
C20_TokensAreMaximalClassRuns ==
  filesScanned >= 1 =>
    LET t    == filePaths[1].text
        toks == Split(t)
    IN  /\ \A k \in DOMAIN toks : \A c \in Range(toks[k]) : InClass(c)
        /\ Range(toks) \ {<<>>} = MaximalRuns(t)
        /\ (t # <<>> /\ \A c \in Range(t) : InClass(c)) => toks = <<t>>
        /\ Names(foundMatches) = (DOMAIN index) \cap MaximalRuns(t)

\* a file whose text is one run with a capital next to the indexed name "a" was
\* scanned as a single token, which matched nothing
C20_Witness ==
  /\ pc = "done"
  /\ outcome = "searched"
  /\ filesScanned = 1
  /\ index # EmptyMap
  /\ Len(filePaths[1].text) >= 2
  /\ "A" \in Range(filePaths[1].text)
  /\ "a" \in Range(filePaths[1].text)
  /\ Split(filePaths[1].text) = <<filePaths[1].text>>
  /\ foundMatches = <<>>

----------------------------------------------------------------------------
(* Properties of registration order                                        *)

\* positions, in configured-location order then traversal order, of the visited files
\* (found) that register a name
RegistrationsOf(ids, n) == {k \in DOMAIN ids : n \in ids[k]}

\* the file that registered a name last
LastRegistered(found, ids, n) ==
  LET ks == RegistrationsOf(ids, n)
  IN  found[CHOOSE k \in ks : \A j \in ks : j <= k]

\* C21: the index built from the source locations holds exactly the names the visited
\* files register, each mapped to the file that registered it last (locations in
\* configured order, files in traversal order); so its content is a function of the
\* configuration and the tree alone.  Alias resolution leaves every other name as it is.
C21_LastRegistrationWins ==
  (pc \in {"buildIndex", "aliases"} \/ BuildIndexDone) =>
    LET built == IF pc = "buildIndex" THEN index ELSE srcIndex
        found == Discovered
        ids   == [k \in DOMAIN found |-> ExpectedIds(found[k])]
    IN  /\ DOMAIN built = UNION Range(ids)
        /\ \A n \in DOMAIN built : built[n] = LastRegistered(found, ids, n)
        /\ pc # "buildIndex" =>
             \A n \in DOMAIN srcIndex :
               (\A a \in AliasesResolved : a.alias # n) => index[n] = srcIndex[n]

\* one name registered by three files, in two locations and in a nested directory of
\* one of them: the index holds the last
C21_Witness ==
  /\ BuildIndexDone
  /\ Len(cfg.paths) = 2
  /\ \E j, k, l \in DOMAIN Discovered :
       /\ j < k /\ k < l
       /\ Discovered[j].stem = Discovered[l].stem
       /\ Discovered[k].stem = Discovered[l].stem
       /\ Discovered[j].dir # Discovered[k].dir
       /\ Discovered[k].dir # Discovered[l].dir
       /\ Discovered[j].dir # Discovered[l].dir
       /\ srcIndex[Discovered[l].stem] = Discovered[l]

NonEmpty(tokens) == SelectSeq(tokens, LAMBDA tok : tok # <<>>)

\* the maximal runs of class characters of a text, left to right
RECURSIVE RunsFrom(_, _, _)
RunsFrom(t, k, cur) ==
  IF k > Len(t) THEN (IF cur = <<>> THEN <<>> ELSE <<cur>>)
  ELSE IF InClass(t[k]) THEN RunsFrom(t, k + 1, Append(cur, t[k]))
  ELSE (IF cur = <<>> THEN <<>> ELSE <<cur>>) \o RunsFrom(t, k + 1, <<>>)

RunsInOrder(t) == RunsFrom(t, 1, <<>>)

\* Array.prototype.join with a one-character separator
RECURSIVE Join(_, _)
Join(tokens, sep) ==
  IF tokens = <<>> THEN <<>>
  ELSE IF Len(tokens) = 1 THEN tokens[1]
  ELSE tokens[1] \o <<sep>> \o Join(Tail(tokens), sep)

\* separator characters of the model's alphabet
Separators == {ch \in TextAlphabet : ~InClass(ch)}

\* C22: the non-empty tokens of a scanned text are its runs of class characters in
\* order, and joining them with any one separator character and tokenizing again
\* yields the same sequence (without empty tokens).
C22_RejoinRetokenizeSame ==
  filesScanned >= 1 =>
    LET t    == filePaths[1].text
        toks == NonEmpty(Split(t))
    IN  /\ toks = RunsInOrder(t)
        /\ \A sep \in Separators :
             /\ NonEmpty(Split(Join(toks, sep))) = toks
             /\ toks # <<>> => Split(Join(toks, sep)) = toks

\* a scanned text with an empty token and two tokens, one of them with a hyphen
C22_Witness ==
  /\ pc = "done"
  /\ filesScanned = 1
  /\ Len(NonEmpty(Split(filePaths[1].text))) = 2
  /\ Len(Split(filePaths[1].text)) = 3
  /\ "-" \in Range(filePaths[1].text)
  /\ Separators = {" ", "#"}

----------------------------------------------------------------------------
(* Properties of empty tokens                                              *)

\* C23: an empty token never produces a match: no pair of the match set has the empty
\* name, and an empty name of the index (from an alias named '') is still unclaimed
\* when search() returns, whatever separators the scanned text starts or ends with.
C23_EmptyTokenNeverMatches ==
  /\ \A k \in DOMAIN foundMatches : foundMatches[k][1] # <<>>
  /\ (SearchReturned /\ <<>> \in DOMAIN index) => <<>> \in remainingIconNames

\* the index has the empty name, the scanned text gave empty tokens before and after
\* a match, and search() returned
C23_Witness ==
  /\ SearchReturned
  /\ <<>> \in DOMAIN index
  /\ filesScanned = 1
  /\ Len(Split(filePaths[1].text)) = 3
  /\ Head(Split(filePaths[1].text)) = <<>>
  /\ Split(filePaths[1].text)[3] = <<>>
  /\ Names(foundMatches) = {<<"a">>}

----------------------------------------------------------------------------
(* Properties of file boundaries                                           *)

\* index names that are a token of two consecutive files' texts put end to start, and
\* a token of no file
CrossBoundaryOnly ==
  {n \in DOMAIN index :
     /\ \E k \in 1..(Len(filePaths) - 1) :
          n \in MaximalRuns(filePaths[k].text \o filePaths[k + 1].text)
     /\ \A k \in 1..Len(filePaths) : n \notin MaximalRuns(filePaths[k].text)}

\* C24: every matched name is a token of one scanned file by itself, whatever the
\* batch size: a name that only arises across the boundary of two files is never
\* matched.
C24_NoTokenSpansFiles ==
  /\ \A e \in DOMAIN foundMatches :
       \E k \in 1..filesScanned : foundMatches[e][1] \in MaximalRuns(filePaths[k].text)
  /\ Names(foundMatches) \cap CrossBoundaryOnly = {}

\* both files were scanned, the second matched, and an index name lies across their
\* boundary
C24_Witness ==
  /\ SearchReturned
  /\ filesScanned = 2
  /\ CrossBoundaryOnly # {}
  /\ Names(foundMatches) # {}
  /\ DOMAIN index \cap MaximalRuns(filePaths[1].text) = {}

----------------------------------------------------------------------------
(* Properties of fragment order                                            *)

\* the entries of the match set concatenateSvgs reads: those with a path
ReadEntries == SelectSeq(MatchSet, LAMBDA e : e[2] # EmptyPath)

\* C25: the fragments pushed so far are those of the first entries of the match set,
\* in its insertion order, one per read; and the match set of a search lists the icons
\* in the order the scanner first met their claiming names.
C25_FragmentsInMatchSetOrder ==
  /\ (pc = "concat" \/ Rendered) =>
       /\ Len(fileContents) = Len(fragLog)
       /\ Len(fragLog) <= Len(ReadEntries)
       /\ \A k \in DOMAIN fragLog :
            /\ fileContents[k] = fragLog[k].fragment
            /\ <<fragLog[k].id, fragLog[k].file>> = ReadEntries[k]
  /\ (SearchReturned /\ cfg.mode # "render") =>
       LET occ == Occurrences(filePaths)
       IN  \A j, k \in DOMAIN foundMatches :
             j < k => FirstPos(occ, foundMatches[j][1]) < FirstPos(occ, foundMatches[k][1])

\* a sprite of two icons whose markups differ was written after a bundle
C25_Witness ==
  /\ pc = "done"
  /\ outcome = "written"
  /\ cfg.mode = "bundle"
  /\ Len(foundMatches) = 2
  /\ Len(fileContents) = 2
  /\ fileContents[1] # fileContents[2]

----------------------------------------------------------------------------
(* Exactness of the scan                                                   *)

\* the tokens of the first k enumerated files, as runs of class characters
RunsUpTo(k) == UNION {Range(RunsInOrder(filePaths[j].text)) : j \in 1..Min(k, Len(filePaths))}

PathsOf(found) == {found[k][2] : k \in DOMAIN found}

\* C26: the paths search() returns are exactly the index paths of the names that occur
\* as a token of a scanned file, which are also those of the names that occur anywhere
\* in the enumerated files; every returned pair is an index entry whose name occurs.
C26_ScanIsExact ==
  SearchReturned =>
    LET scanned == RunsUpTo(filesScanned)
        corpus  == RunsUpTo(Len(filePaths))
        paths   == PathsOf(foundMatches)
    IN  /\ paths = {index[n] : n \in (DOMAIN index) \cap scanned}
        /\ paths = {index[n] : n \in (DOMAIN index) \cap corpus}
        /\ \A k \in DOMAIN foundMatches :
             /\ foundMatches[k][1] \in DOMAIN index
             /\ index[foundMatches[k][1]] = foundMatches[k][2]
             /\ foundMatches[k][1] \in scanned

\* the scan left early with a file unscanned that names an indexed icon, after a batch
\* of one file
C26_Witness ==
  /\ pc = "searched"
  /\ filesScanned = 1
  /\ Len(filePaths) = 2
  /\ Len(foundMatches) >= 1
  /\ (DOMAIN index) \cap MaximalRuns(filePaths[2].text) # {}

----------------------------------------------------------------------------
(* Properties of watch mode                                                *)

\* C27: at most one bundleSprites invocation is in flight at any time.
C27_AtMostOneBuildInFlight == inFlight <= 1

\* C28: at most one debounce timer is pending, and "timeout" names it.
C28_OneTimerPendingNamedByTimeout ==
  /\ Cardinality(timers) <= 1
  /\ timers # {} => timeout \in timers

----------------------------------------------------------------------------
(* Properties of repeated rendering                                        *)

\* C29: a second render() on the same instance, the input files unchanged, returns
\* the document the first call returned.
C29_SecondRenderSame ==
  [][(pc = "concat" /\ pc' = "done" /\ outcome' = "rendered" /\ renderCalls >= 2)
       => spriteSheet' = spriteSheet]_vars

----------------------------------------------------------------------------
(* Properties of option defaulting                                         *)

\* C30: with paths undefined the invocation ends as it does for an empty location
\* list, in NoMatchesFound for bundleSprites and never in an exception; with idPrefix
\* undefined the index holds base names only, none built from the text "undefined".
C30_UndefinedFallsBackToDefault ==
  /\ ("paths" \in cfg.undefined /\ pc = "done") =>
       outcome = (IF cfg.mode = "bundle" THEN "noMatches" ELSE "searched")
  /\ "idPrefix" \in cfg.undefined =>
       \A n \in DOMAIN index : n = basename(index[n])
====
